---- MODULE Spec2Model ----
(***************************************************************************)
(* The two backtesters of Trading-Tools: StanWeinsteinTester               *)
(* (StanWeinstein.py) and SMABacktester (mySMAbacktesting.py), and the     *)
(* pages of trading_dashboard.py.                                          *)
(*                                                                         *)
(* Spec explores the testers on small downloads, SpecGolden the Weinstein  *)
(* tester on seven closes around 100, SpecDash one button press of the     *)
(* Correlation Heatmap or Risk vs Reward page in a new session, SpecPages  *)
(* any sequence of reruns of the two backtest pages, SpecOverview the      *)
(* market overview of the home page.                                       *)
(*                                                                         *)
(* Numbers.  Prices are positive integers or NaN.  A rolling mean is an    *)
(* exact fraction.  A logarithm ln(a/b) is kept as the vector of exponents *)
(* of the primes of a/b, so that cumsum is vector addition, the product    *)
(* with a position (+1/-1) is a scaling of the vector, and np.exp rebuilds *)
(* the fraction.  A correlation, a standard deviation and a Sharpe ratio   *)
(* are kept as a sign and an exact square.  Floating-point rounding error  *)
(* is outside the model.                                                   *)
(***************************************************************************)
EXTENDS Integers, Sequences, FiniteSets, TLC

\* ------------------------------------------------------------------ bounds
MaxLen == 5          \* longest downloaded price history (rows)
MaxPrice == 3        \* prices are drawn from 1..MaxPrice, or NaN
MaxWindow == 3       \* SMA_S and SMA_L are drawn from 1..MaxWindow
SW_WINDOW == 3       \* the window of SMA_30; the source uses 30 * 5
MaxCalls == 2        \* most calls of test_results on one tester
MaxAssets == 3       \* most symbols entered on a dashboard page
MaxDays == 3         \* most rows of a multi-symbol download
MaxQuote == 2        \* its prices are drawn from 1..MaxQuote, or NaN
MaxTokens == 7            \* comma-separated pieces typed into the overview box

\* ------------------------------------------------------------- numbers
NaN == -99                             \* a missing price or position
None == <<>>                           \* self.results before any run
QNaN == [n |-> 0, d |-> 0]             \* a missing fraction

RECURSIVE GCD(_, _)
GCD(a, b) == IF b = 0 THEN a ELSE GCD(b, a % b)

Abs(x) == IF x < 0 THEN -x ELSE x

\* the fraction n/d in lowest terms, d > 0
Q(n, d) == LET g == GCD(Abs(n), d) IN [n |-> n \div g, d |-> d \div g]

\* the comparison the wrong way round
QGt_swapped(a, b) == a # QNaN /\ b # QNaN /\ a.n * b.d < b.n * a.d

\* a > b on fractions, False when either is NaN
QGt(a, b) == a # QNaN /\ b # QNaN /\ a.n * b.d > b.n * a.d
\* the outperformance as a ratio, not a difference
QSub_ratio(a, b) == Q(a.n * b.d, a.d * b.n)

\* a - b on fractions
QSub(a, b) == Q(a.n * b.d - b.n * a.d, a.d * b.d)

RECURSIVE Pow(_, _)
Pow(b, k) == IF k = 0 THEN 1 ELSE b * Pow(b, k - 1)

\* seven closes of a stock around 100, a history a download can return
GoldenPrices == <<100, 102, 101, 105, 107, 106, 110>>

\* every price the model can see, and the primes they are made of
AllPrices == (1..MaxPrice) \cup {GoldenPrices[i] : i \in 1..Len(GoldenPrices)}
PrimeSet ==
    LET top == CHOOSE x \in AllPrices : \A y \in AllPrices : y <= x
    IN {p \in 2..top : /\ \A q \in 2..(p - 1) : p % q # 0
                       /\ \E x \in AllPrices : x % p = 0}

\* the exponent of the prime p in the positive integer x
RECURSIVE Val(_, _)
Val(p, x) == IF x % p = 0 THEN 1 + Val(p, x \div p) ELSE 0

LogNaN == [nan |-> TRUE, e |-> [p \in PrimeSet |-> 0]]
LogZero == [nan |-> FALSE, e |-> [p \in PrimeSet |-> 0]]

\* np.log(a / b) for prices a, b
np_log_div(a, b) ==
    IF a = NaN \/ b = NaN THEN LogNaN
    ELSE [nan |-> FALSE, e |-> [p \in PrimeSet |-> Val(p, a) - Val(p, b)]]

\* a long-only product: a short position earns nothing
LogTimes_long_only(x, pos) ==
    IF x.nan \/ pos = NaN THEN LogNaN
    ELSE [nan |-> FALSE, e |-> [p \in PrimeSet |-> IF pos = 1 THEN x.e[p] ELSE 0]]

\* returns * position, position in {1, -1, NaN}
LogTimes(x, pos) ==
    IF x.nan \/ pos = NaN THEN LogNaN
    ELSE [nan |-> FALSE, e |-> [p \in PrimeSet |-> x.e[p] * pos]]

LogAdd(x, y) ==
    IF x.nan \/ y.nan THEN LogNaN
    ELSE [nan |-> FALSE, e |-> [p \in PrimeSet |-> x.e[p] + y.e[p]]]

RECURSIVE ExpPart(_, _, _)
ExpPart(x, ps, sign) ==
    IF ps = {} THEN 1
    ELSE LET p == CHOOSE q \in ps : TRUE
         IN (IF sign * x.e[p] > 0 THEN Pow(p, sign * x.e[p]) ELSE 1)
               * ExpPart(x, ps \ {p}, sign)

\* np.expm1: the growth factor less 1, the cumulative return itself
np_expm1(x) ==
    IF x.nan THEN QNaN
    ELSE [n |-> ExpPart(x, PrimeSet, 1) - ExpPart(x, PrimeSet, -1),
          d |-> ExpPart(x, PrimeSet, -1)]

\* np.exp of a logarithm: the fraction it is the logarithm of
np_exp(x) == IF x.nan THEN QNaN ELSE [n |-> ExpPart(x, PrimeSet, 1), d |-> ExpPart(x, PrimeSet, -1)]

\* ------------------------------------------------------- pandas helpers
\* a shift that leaves the first row its own value
shift_keep_first(s, nan) == [i \in 1..Len(s) |-> IF i = 1 THEN s[1] ELSE s[i - 1]]

\* Series.shift(1): every value moves one row down, the first row is NaN
shift(s, nan) == [i \in 1..Len(s) |-> IF i = 1 THEN nan ELSE s[i - 1]]

RECURSIVE SumRange(_, _, _)
SumRange(s, lo, hi) == IF lo > hi THEN 0 ELSE s[lo] + SumRange(s, lo + 1, hi)

\* a rolling mean whose window is one row ahead: it ends at row i + 1
rolling_mean_ahead(s, w, i) ==
    IF i + 1 > Len(s) \/ i + 1 < w \/ \E j \in (i - w + 2)..(i + 1) : s[j] = NaN THEN QNaN
    ELSE Q(SumRange(s, i - w + 2, i + 1), w)

\* Series.rolling(w).mean() at row i: NaN until w observations are in the
\* window s[i-w+1..i], and NaN while the window holds a NaN
rolling_mean(s, w, i) ==
    IF i < w \/ \E j \in (i - w + 1)..i : s[j] = NaN THEN QNaN
    ELSE Q(SumRange(s, i - w + 1, i), w)

\* a running sum that forgets the earlier rows
cumsum_no_carry(s, i) == s[i]

\* Series.cumsum() of logarithms at row i
RECURSIVE cumsum(_, _)
cumsum(s, i) == IF i = 1 THEN s[1] ELSE LogAdd(cumsum(s, i - 1), s[i])

\* ---------------------------------------------------------- yf.download
PRICE_COLS == {"Open", "High", "Low", "Close", "Adj Close"}

\* the column layouts a download can have
ColumnLayouts == {<<"Close", "Volume">>, <<"Open", "Adj Close">>,
                  <<"High", "Low">>, <<"Volume">>}

RECURSIVE SeqsUpTo(_, _)
SeqsUpTo(S, k) ==
    IF k = 0 THEN {<<>>}
    ELSE LET shorter == SeqsUpTo(S, k - 1)
         IN shorter \cup {Append(s, x) : s \in {t \in shorter : Len(t) = k - 1}, x \in S}

Prices == (1..MaxPrice) \cup {NaN}
PriceSeries == SeqsUpTo(Prices, MaxLen)

\* the column get_data reads, "" when it raises ValueError
close_col(columns) ==
    LET cols == {columns[i] : i \in 1..Len(columns)}
        price_cols == SelectSeq(columns, LAMBDA c : c \in PRICE_COLS)
    IN IF "Close" \in cols THEN "Close"
       ELSE IF "Adj Close" \in cols THEN "Adj Close"
       ELSE IF price_cols # <<>> THEN price_cols[1]
       ELSE ""

\* a downloaded frame: its columns, and the values px of the column that
\* get_data reads (no values when there is no such column)
Frames ==
    {f \in [columns : ColumnLayouts, px : PriceSeries] :
        close_col(f.columns) = "" => f.px = <<>>}

\* the download of the seven closes, and the downloads of a stretch of them
GoldenFrame == [columns |-> <<"Close", "Volume">>, px |-> GoldenPrices]
GoldenFrames ==
    {[columns |-> c, px |-> SubSeq(GoldenPrices, i, j)] :
        c \in ColumnLayouts \ {<<"Volume">>},
        i \in 1..Len(GoldenPrices), j \in 0..Len(GoldenPrices)}

\* ------------------------------------------------------------- get_data
\* StanWeinsteinTester.get_data: Close, returns, SMA_30, then dropna
SW_get_data(px) ==
    LET Close == px
        prev == shift(Close, NaN)
        all == [i \in 1..Len(px) |->
                  [idx |-> i - 1,
                   Close |-> Close[i],
                   returns |-> np_log_div(Close[i], prev[i]),
                   SMA_30 |-> rolling_mean(Close, SW_WINDOW, i)]]
    IN SelectSeq(all, LAMBDA r : r.Close # NaN /\ ~r.returns.nan /\ r.SMA_30 # QNaN)

\* get_data with the undefined averages filled with 0 instead of dropped
SMA_get_data_fill0(px, S, L) ==
    LET Close == px
        prev == shift(Close, NaN)
        fill0(x) == IF x = QNaN THEN [n |-> 0, d |-> 1] ELSE x
        all == [i \in 1..Len(px) |->
                  [idx |-> i - 1,
                   Close |-> Close[i],
                   returns |-> np_log_div(Close[i], prev[i]),
                   SMA_S |-> fill0(rolling_mean(Close, S, i)),
                   SMA_L |-> fill0(rolling_mean(Close, L, i))]]
    IN SelectSeq(all, LAMBDA r : r.Close # NaN /\ ~r.returns.nan)

\* SMABacktester.get_data: Close, returns, SMA_S, SMA_L, then dropna
SMA_get_data(px, S, L) ==
    LET Close == px
        prev == shift(Close, NaN)
        all == [i \in 1..Len(px) |->
                  [idx |-> i - 1,
                   Close |-> Close[i],
                   returns |-> np_log_div(Close[i], prev[i]),
                   SMA_S |-> rolling_mean(Close, S, i),
                   SMA_L |-> rolling_mean(Close, L, i)]]
    IN SelectSeq(all, LAMBDA r : r.Close # NaN /\ ~r.returns.nan
                                   /\ r.SMA_S # QNaN /\ r.SMA_L # QNaN)

NoCall == [tag |-> "none", perf |-> 0, outperf |-> 0, exc |-> ""]
Raised(e) == [tag |-> "raise", perf |-> 0, outperf |-> 0, exc |-> e]
Returned(p, o) == [tag |-> "ok", perf |-> p, outperf |-> o, exc |-> ""]

\* --------------------------------------------------------- test_results
\* the comparison with >= in place of >
PriceAbove_or_equal(close, sma) == close # NaN /\ sma # QNaN /\ close * sma.d >= sma.n

\* Close > SMA on one row, as np.where sees it (False when either is NaN)
PriceAbove(close, sma) == close # NaN /\ sma # QNaN /\ close * sma.d > sma.n

\* q * 10^k as [q, r]: integer part and remainder over the denominator d
RECURSIVE Scaled(_, _, _)
Scaled(n, d, k) ==
    IF k = 0 THEN [q |-> n \div d, r |-> n % d]
    ELSE LET s == Scaled(n, d, k - 1)
         IN [q |-> s.q * 10 + (s.r * 10) \div d, r |-> (s.r * 10) % d]

\* round(x, 6) of the fraction x, in millionths; halves go to the even digit
round6(x) ==
    LET s == Scaled(Abs(x.n), x.d, 6)
        up == 2 * s.r > x.d \/ (2 * s.r = x.d /\ s.q % 2 = 1)
        m == IF up THEN s.q + 1 ELSE s.q
    IN IF x.n < 0 THEN -m ELSE m

\* Evaluate with the position applied to its own row (no shift)
Evaluate_unlagged(data, position) ==
    LET strategy == [i \in 1..Len(data) |-> LogTimes(data[i].returns, position[i])]
        rets == [k \in 1..Len(data) |-> data[k].returns]
    IN [k \in 1..Len(data) |->
          [row |-> data[k],
           position |-> position[k],
           strategy |-> strategy[k],
           returnsBH |-> np_exp(cumsum(rets, k)),
           returnstrategy |-> np_exp(cumsum(strategy, k))]]

\* the columns test_results adds to the rows that survive its dropna
Evaluate(data, position) ==
    LET lagged == shift(position, NaN)
        strategy == [i \in 1..Len(data) |-> LogTimes(data[i].returns, lagged[i])]
        kept == SelectSeq([i \in 1..Len(data) |-> i], LAMBDA i : ~strategy[i].nan)
        rets == [k \in 1..Len(kept) |-> data[kept[k]].returns]
        strat == [k \in 1..Len(kept) |-> strategy[kept[k]]]
    IN [k \in 1..Len(kept) |->
          [row |-> data[kept[k]],
           position |-> position[kept[k]],
           strategy |-> strat[k],
           returnsBH |-> np_exp(cumsum(rets, k)),
           returnstrategy |-> np_exp(cumsum(strat, k))]]

\* the outperformance taken as the difference of the two rounded values
Outcome_rounded_first(table) ==
    IF table = <<>> THEN Raised("IndexError")
    ELSE LET perf == table[Len(table)].returnstrategy
             bh == table[Len(table)].returnsBH
         IN Returned(round6(perf), round6(perf) - round6(bh))

\* the value test_results returns, or the IndexError of .iloc[-1]
Outcome(table) ==
    IF table = <<>> THEN Raised("IndexError")
    ELSE LET perf == table[Len(table)].returnstrategy
             outperf == QSub(perf, table[Len(table)].returnsBH)
         IN Returned(round6(perf), round6(outperf))

\* the Weinstein signal taken as the sign of Close - SMA_30
SW_table_sign(d2) ==
    LET dataSW == SelectSeq(d2, LAMBDA r : r.Close # NaN /\ ~r.returns.nan /\ r.SMA_30 # QNaN)
        position == [i \in 1..Len(dataSW) |->
                       IF PriceAbove(dataSW[i].Close, dataSW[i].SMA_30) THEN 1
                       ELSE IF dataSW[i].Close * dataSW[i].SMA_30.d = dataSW[i].SMA_30.n THEN 0
                       ELSE -1]
    IN Evaluate(dataSW, position)

\* StanWeinsteinTester.test_results, up to the assignment of self.results
SW_table(d2) ==
    LET dataSW == SelectSeq(d2, LAMBDA r : r.Close # NaN /\ ~r.returns.nan /\ r.SMA_30 # QNaN)
        position == [i \in 1..Len(dataSW) |->
                       IF PriceAbove(dataSW[i].Close, dataSW[i].SMA_30) THEN 1 ELSE -1]
    IN Evaluate(dataSW, position)

\* a short average that is the close itself treated as always long
SMA_table_short1(d2) ==
    LET data == SelectSeq(d2, LAMBDA r : r.Close # NaN /\ ~r.returns.nan
                                         /\ r.SMA_S # QNaN /\ r.SMA_L # QNaN)
        position == [i \in 1..Len(data) |->
                       IF data[i].SMA_S = [n |-> data[i].Close, d |-> 1]
                          \/ QGt(data[i].SMA_S, data[i].SMA_L) THEN 1 ELSE -1]
    IN Evaluate(data, position)

\* SMABacktester.test_results, up to the assignment of self.results
SMA_table(d2) ==
    LET data == SelectSeq(d2, LAMBDA r : r.Close # NaN /\ ~r.returns.nan
                                         /\ r.SMA_S # QNaN /\ r.SMA_L # QNaN)
        position == [i \in 1..Len(data) |->
                       IF QGt(data[i].SMA_S, data[i].SMA_L) THEN 1 ELSE -1]
    IN Evaluate(data, position)

\* ------------------------------------------------------ dashboard pages
\* the slider of the correlation page, in tenths: 0.0 to 1.0 in steps of 0.1
Thresholds == {0, 4, 6, 10}

\* what yf.download can return for several symbols: a MultiIndex frame with
\* an 'Adj Close' or a 'Close' level, one with neither, or a flat frame
DownloadLayouts == {"Adj Close", "Close", "Volume", "flat"}

Quotes == (1..MaxQuote) \cup {NaN}
\* the prices of one symbol over the rows of a download: a symbol has no
\* price before its first trading day and one on every row from then on
QuoteColumns(days) ==
    {c \in SeqsUpTo(Quotes, days) :
        /\ Len(c) = days
        /\ \A t \in 2..days : c[t] = NaN => c[t - 1] = NaN}

\* the downloads for n symbols: every table of prices for a layout the page
\* can read, and one table for each layout it cannot
Downloads(n) ==
    {[layout |-> l, px |-> p] :
        l \in {"Adj Close", "Close"},
        p \in UNION {[1..n -> QuoteColumns(days)] : days \in 0..MaxDays}}
    \cup {[layout |-> l, px |-> [i \in 1..n |-> <<1>>]] : l \in {"Volume", "flat"}}

\* raw_data.empty: no rows
raw_empty(raw) == \A i \in DOMAIN raw.px : raw.px[i] = <<>>

\* the price table the page takes from the download, one column per symbol;
\* <<>> when it shows an error and stops (no price level, or a flat frame
\* whose single column cannot take the names of two or more symbols)
select_prices(raw, stock_list) ==
    IF raw.layout \in {"Adj Close", "Close"}
    THEN [i \in 1..Len(stock_list) |-> [ticker |-> stock_list[i], px |-> raw.px[i]]]
    ELSE <<>>

\* the missing prices replaced by 0 and every column kept
dropna_all_fill0(stocks) ==
    [i \in 1..Len(stocks) |->
        [ticker |-> stocks[i].ticker,
         px |-> [t \in 1..Len(stocks[i].px) |->
                   IF stocks[i].px[t] = NaN THEN 0 ELSE stocks[i].px[t]]]]

\* DataFrame.dropna(axis=1, how='all'): the columns with at least one price
dropna_all(stocks) ==
    SelectSeq(stocks, LAMBDA col : \E t \in 1..Len(col.px) : col.px[t] # NaN)

RECURSIVE Sum(_)
Sum(s) == IF s = <<>> THEN 0 ELSE Head(s) + Sum(Tail(s))

Sign(x) == IF x > 0 THEN 1 ELSE IF x < 0 THEN -1 ELSE 0

\* a correlation r is kept as its sign and the fraction r * r
CorrNaN == [nan |-> TRUE, sgn |-> 0, sq |-> QNaN]

\* the Pearson correlation of two columns over the rows where both have a
\* value; NaN when either has no variation over those rows
pearson(x, y) ==
    LET pr == SelectSeq([t \in 1..Len(x) |-> <<x[t], y[t]>>],
                        LAMBDA p : p[1] # NaN /\ p[2] # NaN)
        n == Len(pr)
        sx == Sum([k \in 1..n |-> pr[k][1]])
        sy == Sum([k \in 1..n |-> pr[k][2]])
        Sxy == n * Sum([k \in 1..n |-> pr[k][1] * pr[k][2]]) - sx * sy
        Sxx == n * Sum([k \in 1..n |-> pr[k][1] * pr[k][1]]) - sx * sx
        Syy == n * Sum([k \in 1..n |-> pr[k][2] * pr[k][2]]) - sy * sy
    IN IF Sxx = 0 \/ Syy = 0 THEN CorrNaN
       ELSE [nan |-> FALSE, sgn |-> Sign(Sxy), sq |-> Q(Sxy * Sxy, Sxx * Syy)]

\* DataFrame.corr(): each pair is computed once and mirrored
corr(stocks) ==
    [i \in 1..Len(stocks) |-> [j \in 1..Len(stocks) |->
        IF i <= j THEN pearson(stocks[i].px, stocks[j].px)
        ELSE pearson(stocks[j].px, stocks[i].px)]]

\* np.abs(c) < threshold, with the threshold in tenths; False for NaN
below(c, threshold) == ~c.nan /\ 100 * c.sq.n < threshold * threshold * c.sq.d

\* (np.abs(corr_matrix) < low_corr_threshold).sum(axis=1) - 1
low_corr_counts(corr_matrix, threshold) ==
    [i \in 1..Len(corr_matrix) |->
        Cardinality({j \in 1..Len(corr_matrix) : below(corr_matrix[i][j], threshold)}) - 1]

\* the 'Low Correlations Count' of the detailed table for the i-th symbol:
\* the other symbols whose entry in its column is below the threshold
detailed_count(corr_matrix, i, threshold) ==
    Cardinality({j \in 1..Len(corr_matrix) :
                    below(corr_matrix[j][i], threshold) /\ j # i})

\* ---- Risk vs Reward page
QAdd(a, b) == Q(a.n * b.d + b.n * a.d, a.d * b.d)
QMul(a, b) == Q(a.n * b.n, a.d * b.d)

RECURSIVE QSum(_)
QSum(s) == IF s = <<>> THEN [n |-> 0, d |-> 1] ELSE QAdd(Head(s), QSum(Tail(s)))

\* Series.pct_change() of one column: NaN on the first row and wherever a
\* price is missing (on these columns forward-filling changes nothing)
pct_change(px) ==
    [t \in 1..Len(px) |->
        IF t = 1 \/ px[t] = NaN \/ px[t - 1] = NaN THEN QNaN
        ELSE Q(px[t] - px[t - 1], px[t - 1])]

\* stocks.pct_change().dropna(): the rows where every symbol has a return
daily_returns(stocks) ==
    LET days == IF stocks = <<>> THEN 0 ELSE Len(stocks[1].px)
        all == [i \in 1..Len(stocks) |-> pct_change(stocks[i].px)]
        rows == SelectSeq([t \in 1..days |-> t],
                          LAMBDA t : \A i \in 1..Len(stocks) : all[i][t] # QNaN)
    IN [i \in 1..Len(stocks) |->
          [ticker |-> stocks[i].ticker, r |-> [k \in 1..Len(rows) |-> all[i][rows[k]]]]]

\* describe()['mean'] of a column of returns; NaN when there is none
describe_mean(r) ==
    IF r = <<>> THEN QNaN ELSE QMul(QSum(r), [n |-> 1, d |-> Len(r)])

\* the square of describe()['std'] (n - 1 in the divisor); NaN below 2 rows
describe_var(r) ==
    IF Len(r) < 2 THEN QNaN
    ELSE LET m == describe_mean(r)
             dev == [k \in 1..Len(r) |-> QMul(QSub(r[k], m), QSub(r[k], m))]
         IN QMul(QSum(dev), [n |-> 1, d |-> Len(r) - 1])

\* the standard deviation times 252, not times its square root
annual_std_linear(var) ==
    IF var = QNaN THEN [nan |-> TRUE, sq |-> QNaN]
    ELSE [nan |-> FALSE, sq |-> QMul(var, [n |-> 252 * 252, d |-> 1])]

\* summary['std'] * np.sqrt(252); a standard deviation is kept as its square
annual_std(var) ==
    IF var = QNaN THEN [nan |-> TRUE, sq |-> QNaN]
    ELSE [nan |-> FALSE, sq |-> QMul(var, [n |-> 252, d |-> 1])]

\* summary['mean'] * 252
annual_mean(mean) == IF mean = QNaN THEN QNaN ELSE QMul(mean, [n |-> 252, d |-> 1])

\* summary['mean'] / summary['std'] in floating point: NaN when either is
\* NaN or both are 0, an infinity when only the std is 0; a ratio is kept as
\* its sign and its square
sharpe_ratio(mean, std) ==
    IF mean = QNaN \/ std.nan \/ (mean.n = 0 /\ std.sq.n = 0)
    THEN [tag |-> "nan", sgn |-> 0, sq |-> QNaN]
    ELSE IF std.sq.n = 0 THEN [tag |-> "inf", sgn |-> Sign(mean.n), sq |-> QNaN]
    ELSE [tag |-> "num", sgn |-> Sign(mean.n),
          sq |-> Q(mean.n * mean.n * std.sq.d, mean.d * mean.d * std.sq.n)]

\* the summary table of the page, one row per symbol
risk_summary(returns) ==
    [i \in 1..Len(returns) |->
        LET mean == annual_mean(describe_mean(returns[i].r))
            std == annual_std(describe_var(returns[i].r))
        IN [ticker |-> returns[i].ticker, mean |-> mean, std |-> std,
            sharpe |-> sharpe_ratio(mean, std)]]

\* what plot_results leaves on the screen: nothing yet, a printed line, or
\* a titled chart of the two cumulative columns
NoOutput == [kind |-> "none", text |-> "", curves |-> <<>>]
Printed(text) == [kind |-> "print", text |-> text, curves |-> <<>>]
Plotted(title, table) ==
    [kind |-> "plot", text |-> title,
     curves |-> [k \in 1..Len(table) |-> <<table[k].returnsBH, table[k].returnstrategy>>]]

\* st.session_state[key] = value
Store(state, key, value) ==
    [k \in DOMAIN state \cup {key} |-> IF k = key THEN value ELSE state[k]]

NoSession == [k \in {} |-> None]
NoRun == [page |-> "none", msg |-> "", stock_list |-> <<>>, stocks |-> <<>>, threshold |-> 0]
Pressed(page, msg, stock_list, stocks, threshold) ==
    [page |-> page, msg |-> msg, stock_list |-> stock_list, stocks |-> stocks,
     threshold |-> threshold]

\* ----------------------------------------------------------------- state
VARIABLES
    kind,       \* "none", "SW" (StanWeinsteinTester) or "SMA" (SMABacktester)
    SMA_S,      \* self.SMA_S (0 for the Weinstein tester)
    SMA_L,      \* self.SMA_L (0 for the Weinstein tester)
    frame,      \* what yf.download returned to the constructor
    pc,         \* "start", "ready" (constructed) or "failed" (__init__ raised)
    data2,      \* self.data2
    results,    \* self.results, None until test_results completes
    ret,        \* outcome of the last call
    session,    \* st.session_state of the dashboard
    run,        \* the last button press: what was entered and what was shown
    calls,      \* how many times test_results was called on the tester
    shown       \* what the last plot_results call printed or plotted

vars == <<kind, SMA_S, SMA_L, frame, pc, data2, results, ret, session, run,
          calls, shown>>

Init ==
    /\ kind = "none"
    /\ SMA_S = 0
    /\ SMA_L = 0
    /\ frame = [columns |-> <<"Close", "Volume">>, px |-> <<>>]
    /\ pc = "start"
    /\ data2 = <<>>
    /\ results = None
    /\ ret = NoCall
    /\ session = NoSession
    /\ run = NoRun
    /\ calls = 0
    /\ shown = NoOutput

\* StanWeinsteinTester.__init__, which calls get_data
SW_new(f) ==
    /\ kind' = "SW"
    /\ frame' = f
    /\ results' = None
    /\ IF close_col(f.columns) = ""
       THEN /\ pc' = "failed"
            /\ ret' = Raised("ValueError")
            /\ data2' = <<>>
       ELSE /\ pc' = "ready"
            /\ ret' = NoCall
            /\ data2' = SW_get_data(f.px)
    /\ UNCHANGED <<SMA_S, SMA_L, session, run, calls, shown>>

\* the constructor on any small download
SW_init ==
    /\ pc = "start"
    /\ \E f \in Frames : SW_new(f)

\* the constructor on a download of the seven closes or a stretch of them
SW_init_golden ==
    /\ pc = "start"
    /\ \E f \in GoldenFrames : SW_new(f)

\* SMABacktester.__init__, which calls get_data
SMA_init ==
    /\ pc = "start"
    /\ \E S \in 1..MaxWindow, L \in 1..MaxWindow, f \in Frames :
        /\ kind' = "SMA"
        /\ SMA_S' = S
        /\ SMA_L' = L
        /\ frame' = f
        /\ results' = None
        /\ IF close_col(f.columns) = ""
           THEN /\ pc' = "failed"
                /\ ret' = Raised("ValueError")
                /\ data2' = <<>>
           ELSE /\ pc' = "ready"
                /\ ret' = NoCall
                /\ data2' = SMA_get_data(f.px, S, L)
    /\ UNCHANGED <<session, run, calls, shown>>

\* test_results working on data2 itself, not on a copy: the rows it drops
\* are gone from the prepared frame
SW_test_results_in_place ==
    /\ pc = "ready"
    /\ kind = "SW"
    /\ calls < MaxCalls
    /\ calls' = calls + 1
    /\ LET table == SW_table(data2)
       IN /\ ret' = Outcome(table)
          /\ results' = IF table = <<>> THEN results ELSE table
          /\ data2' = [k \in 1..Len(table) |-> table[k].row]
    /\ UNCHANGED <<kind, SMA_S, SMA_L, frame, pc, session, run, shown>>

\* StanWeinsteinTester.test_results
SW_test_results ==
    /\ pc = "ready"
    /\ kind = "SW"
    /\ calls < MaxCalls
    /\ calls' = calls + 1
    /\ LET table == SW_table(data2)
       IN /\ ret' = Outcome(table)
          /\ results' = IF table = <<>> THEN results ELSE table
    /\ UNCHANGED <<kind, SMA_S, SMA_L, frame, pc, data2, session, run, shown>>

\* SMABacktester.test_results
SMA_test_results ==
    /\ pc = "ready"
    /\ kind = "SMA"
    /\ calls < MaxCalls
    /\ calls' = calls + 1
    /\ LET table == SMA_table(data2)
       IN /\ ret' = Outcome(table)
          /\ results' = IF table = <<>> THEN results ELSE table
    /\ UNCHANGED <<kind, SMA_S, SMA_L, frame, pc, data2, session, run, shown>>

\* plot_results drawing the chart without looking at self.results
SW_plot_results_unguarded ==
    /\ pc = "ready"
    /\ kind = "SW"
    /\ shown' = Plotted("Weinstein Strategy", results)
    /\ UNCHANGED <<kind, SMA_S, SMA_L, frame, pc, data2, results, ret, session, run, calls>>

\* StanWeinsteinTester.plot_results
SW_plot_results ==
    /\ pc = "ready"
    /\ kind = "SW"
    /\ shown' = IF results = None THEN Printed("Run the test!")
                 ELSE Plotted("Weinstein Strategy", results)
    /\ UNCHANGED <<kind, SMA_S, SMA_L, frame, pc, data2, results, ret, session, run, calls>>

\* SMABacktester.plot_results
SMA_plot_results ==
    /\ pc = "ready"
    /\ kind = "SMA"
    /\ shown' = IF results = None THEN Printed("Run the test please")
                 ELSE Plotted(<<"SMA_S", SMA_S, "SMA_L", SMA_L>>, results)
    /\ UNCHANGED <<kind, SMA_S, SMA_L, frame, pc, data2, results, ret, session, run, calls>>

Next ==
    \/ SW_init
    \/ SMA_init
    \/ SW_test_results
    \/ SMA_test_results
    \/ SW_plot_results
    \/ SMA_plot_results

Spec == Init /\ [][Next]_vars

NextGolden ==
    \/ SW_init_golden
    \/ SW_test_results

SpecGolden == Init /\ [][NextGolden]_vars

\* the button of the Correlation Heatmap page, pressed in a new session
Corr_run ==
    /\ run.page = "none"
    /\ \E n \in 0..MaxAssets, dates_ok \in BOOLEAN, threshold \in Thresholds :
         LET stock_list == [i \in 1..n |-> i]
         IN IF n < 2
            THEN /\ run' = Pressed("corr", "Please enter at least 2 stock symbols",
                                   stock_list, <<>>, 0)
                 /\ UNCHANGED session
            ELSE IF ~dates_ok
            THEN /\ run' = Pressed("corr", "Start date must be before end date",
                                   stock_list, <<>>, 0)
                 /\ UNCHANGED session
            ELSE \E raw \in Downloads(n) :
                   LET selected == select_prices(raw, stock_list)
                       stocks == dropna_all(selected)
                       corr_matrix == corr(stocks)
                   IN IF raw_empty(raw)
                      THEN /\ run' = Pressed("corr", "No data found", stock_list, <<>>, 0)
                           /\ UNCHANGED session
                      ELSE IF selected = <<>>
                      THEN /\ run' = Pressed("corr", "No price columns found",
                                             stock_list, <<>>, 0)
                           /\ UNCHANGED session
                      ELSE IF Len(stocks) < 2
                      THEN /\ run' = Pressed("corr", "Not enough valid data found",
                                             stock_list, selected, 0)
                           /\ UNCHANGED session
                      ELSE /\ run' = Pressed("corr", "Correlation analysis complete",
                                             stock_list, selected, threshold)
                           /\ session' =
                                Store(Store(Store(Store(session,
                                    "corr_matrix", corr_matrix),
                                    "corr_stocks", stocks),
                                    "low_corr_counts", low_corr_counts(corr_matrix, threshold)),
                                    "low_corr_threshold", threshold)
    /\ UNCHANGED <<kind, SMA_S, SMA_L, frame, pc, data2, results, ret, calls, shown>>

\* the button of the Risk vs Reward page, pressed in a new session
Risk_run ==
    /\ run.page = "none"
    /\ \E n \in 0..MaxAssets, dates_ok \in BOOLEAN :
         LET stock_list == [i \in 1..n |-> i]
         IN IF n < 2
            THEN /\ run' = Pressed("risk", "Please enter at least 2 stock symbols",
                                   stock_list, <<>>, 0)
                 /\ UNCHANGED session
            ELSE IF ~dates_ok
            THEN /\ run' = Pressed("risk", "Start date must be before end date",
                                   stock_list, <<>>, 0)
                 /\ UNCHANGED session
            ELSE \E raw \in Downloads(n) :
                   LET selected == select_prices(raw, stock_list)
                       stocks == dropna_all(selected)
                       returns == daily_returns(stocks)
                   IN IF raw_empty(raw)
                      THEN /\ run' = Pressed("risk", "No data found", stock_list, <<>>, 0)
                           /\ UNCHANGED session
                      ELSE IF selected = <<>>
                      THEN /\ run' = Pressed("risk", "No price columns found",
                                             stock_list, <<>>, 0)
                           /\ UNCHANGED session
                      ELSE IF stocks = <<>>
                      THEN /\ run' = Pressed("risk", "No valid data found",
                                             stock_list, selected, 0)
                           /\ UNCHANGED session
                      ELSE /\ run' = Pressed("risk", "Analysis complete",
                                             stock_list, selected, 0)
                           /\ session' =
                                Store(Store(Store(session,
                                    "risk_summary", risk_summary(returns)),
                                    "risk_stocks", stocks),
                                    "risk_returns", returns)
    /\ UNCHANGED <<kind, SMA_S, SMA_L, frame, pc, data2, results, ret, calls, shown>>

NextDash ==
    \/ Corr_run
    \/ Risk_run

SpecDash == Init /\ [][NextDash]_vars

\* ------------------------------------------------ the two backtest pages
\* what the symbol box can hold: nothing, or one of two tickers
Symbols == {"", "AAPL", "NVDA"}

\* the closes Yahoo holds for a ticker
History(symbol) ==
    IF symbol = "AAPL" THEN [i \in 1..MaxLen |-> 1 + (i % MaxPrice)]
    ELSE IF symbol = "NVDA" THEN [i \in 1..MaxLen |-> 1 + ((i * i) % MaxPrice)]
    ELSE <<>>

\* what the tester's download can return for a ticker: with or without a
\* price column, and the closes up to the end date of the range (none at
\* all when nothing is found)
PageFrames(symbol) ==
    {[columns |-> c,
      px |-> IF close_col(c) = "" THEN <<>> ELSE SubSeq(History(symbol), 1, j)] :
        c \in {<<"Close", "Volume">>, <<"Volume">>}, j \in 0..Len(History(symbol))}

\* one rerun of a backtest page: the widget values, whether the button was
\* pressed, whether the tester was constructed, and the message shown
PageRun(page, pressed, symbol, dates_ok, sma_short, sma_long, invoked, msg) ==
    [page |-> page, pressed |-> pressed, symbol |-> symbol, dates_ok |-> dates_ok,
     sma_short |-> sma_short, sma_long |-> sma_long, invoked |-> invoked, msg |-> msg]

\* if symbol and start_date < end_date
SW_checks(symbol, dates_ok) == symbol # "" /\ dates_ok

\* the SMA page running whatever the two periods are
SMA_checks_no_window(symbol, dates_ok, sma_short, sma_long) == symbol # "" /\ dates_ok

\* if symbol and start_date < end_date and sma_short < sma_long
SMA_checks(symbol, dates_ok, sma_short, sma_long) ==
    symbol # "" /\ dates_ok /\ sma_short < sma_long

\* the right-hand column of the Stan Weinstein page
SW_chart(state, symbol) ==
    IF "weinstein_results" \in DOMAIN state
    THEN Plotted(<<state["weinstein_symbol"], "Stan Weinstein Strategy vs Buy & Hold">>,
                 state["weinstein_results"])
    ELSE Printed("Run an analysis to see the performance chart and trading signals")

\* the right-hand column labelled with what the widgets hold at the moment
SMA_chart_inputs(state, symbol, sma_short, sma_long) ==
    IF "sma_results" \in DOMAIN state
    THEN Plotted(<<symbol, "SMA Strategy", sma_short, sma_long>>, state["sma_results"])
    ELSE Printed("Run an analysis to see the performance charts and trading signals")

\* the right-hand column of the SMA page; symbol, sma_short and sma_long
\* are rebound to the stored values before anything is drawn
SMA_chart(state, symbol, sma_short, sma_long) ==
    IF "sma_results" \in DOMAIN state
    THEN Plotted(<<state["sma_symbol"], "SMA Strategy",
                   state["sma_short"], state["sma_long"]>>, state["sma_results"])
    ELSE Printed("Run an analysis to see the performance charts and trading signals")

\* one rerun of the Stan Weinstein page, with or without the button
SW_page ==
    /\ \E pressed \in BOOLEAN, symbol \in Symbols, dates_ok \in BOOLEAN :
         /\ IF ~pressed
            THEN /\ run' = PageRun("sw", FALSE, symbol, dates_ok, 0, 0, FALSE, "")
                 /\ session' = session
            ELSE IF ~SW_checks(symbol, dates_ok)
            THEN /\ run' = PageRun("sw", TRUE, symbol, dates_ok, 0, 0, FALSE,
                                   "Please enter a valid symbol and date range")
                 /\ session' = session
            ELSE \E f \in PageFrames(symbol) :
                   LET table == IF close_col(f.columns) = "" THEN <<>>
                                ELSE SW_table(SW_get_data(f.px))
                       exc == IF close_col(f.columns) = "" THEN "ValueError"
                              ELSE Outcome(table).exc
                   IN IF exc # ""
                      THEN /\ run' = PageRun("sw", TRUE, symbol, dates_ok, 0, 0, TRUE,
                                             "Error running analysis")
                           /\ session' = session
                      ELSE /\ run' = PageRun("sw", TRUE, symbol, dates_ok, 0, 0, TRUE,
                                             "Strategy Performance")
                           /\ session' = Store(Store(session,
                                              "weinstein_results", table),
                                              "weinstein_symbol", symbol)
         /\ shown' = SW_chart(session', symbol)
    /\ UNCHANGED <<kind, SMA_S, SMA_L, frame, pc, data2, results, ret, calls>>

\* one rerun of the SMA page, with or without the button
SMA_page ==
    /\ \E pressed \in BOOLEAN, symbol \in Symbols, dates_ok \in BOOLEAN,
          sma_short \in 1..MaxWindow, sma_long \in 1..MaxWindow :
         /\ IF ~pressed
            THEN /\ run' = PageRun("sma", FALSE, symbol, dates_ok, sma_short, sma_long,
                                   FALSE, "")
                 /\ session' = session
            ELSE IF ~SMA_checks(symbol, dates_ok, sma_short, sma_long)
            THEN /\ run' = PageRun("sma", TRUE, symbol, dates_ok, sma_short, sma_long,
                                   FALSE,
                                   "Please check your inputs and ensure short MA < long MA")
                 /\ session' = session
            ELSE \E f \in PageFrames(symbol) :
                   LET table == IF close_col(f.columns) = "" THEN <<>>
                                ELSE SMA_table(SMA_get_data(f.px, sma_short, sma_long))
                       exc == IF close_col(f.columns) = "" THEN "ValueError"
                              ELSE Outcome(table).exc
                   IN IF exc # ""
                      THEN /\ run' = PageRun("sma", TRUE, symbol, dates_ok, sma_short,
                                             sma_long, TRUE,
                                             "Error running analysis")
                           /\ session' = session
                      ELSE /\ run' = PageRun("sma", TRUE, symbol, dates_ok, sma_short,
                                             sma_long, TRUE, "Strategy Performance")
                           /\ session' = Store(Store(Store(Store(session,
                                              "sma_results", table),
                                              "sma_symbol", symbol),
                                              "sma_short", sma_short),
                                              "sma_long", sma_long)
         /\ shown' = SMA_chart(session', symbol, sma_short, sma_long)
    /\ UNCHANGED <<kind, SMA_S, SMA_L, frame, pc, data2, results, ret, calls>>

NextPages ==
    \/ SW_page
    \/ SMA_page

SpecPages == Init /\ [][NextPages]_vars

\* ------------------------------------------- market overview (home page)
\* a string is the sequence of its characters
default_overview_stocks ==
    << <<"S", "P", "Y">>, <<"Q", "Q", "Q">>, <<"D", "I", "A">>, <<"I", "W", "M">> >>

\* the display limit of the overview
MAX_OVERVIEW == 6

\* the pieces overview_stocks_input.split(',') can give: an empty one, a
\* blank one, and two tickers typed with blanks and in either case
RawTokens == {<<>>, <<" ">>, <<" ", "s">>, <<"Q", " ">>}

\* the text of the box, as the list split(',') makes of it (never empty)
OverviewInputs == SeqsUpTo(RawTokens, MaxTokens) \ {<<>>}

RECURSIVE strip(_)
\* trimming at the front only
strip_front(t) == IF t # <<>> /\ t[1] = " " THEN strip(Tail(t)) ELSE t

\* str.strip
strip(t) ==
    IF t # <<>> /\ t[1] = " " THEN strip(Tail(t))
    ELSE IF t # <<>> /\ t[Len(t)] = " " THEN strip(SubSeq(t, 1, Len(t) - 1))
    ELSE t

\* str.upper
upper(t) ==
    [i \in 1..Len(t) |-> IF t[i] = "s" THEN "S" ELSE IF t[i] = "q" THEN "Q" ELSE t[i]]

\* the list the overview works with
parse_overview(tokens) ==
    LET kept == SelectSeq(tokens, LAMBDA t : strip(t) # <<>>)
        parsed == [i \in 1..Len(kept) |-> upper(strip(kept[i]))]
        limited == IF Len(parsed) > MAX_OVERVIEW THEN SubSeq(parsed, 1, MAX_OVERVIEW)
                   ELSE parsed
    IN IF Len(limited) = 0 THEN default_overview_stocks ELSE limited

\* what the 5-day download holds for a symbol: two closes or more, fewer,
\* or no column at all
QUOTE_STATES == {"quoted", "short", "missing"}

\* the card of one symbol
card(symbol, quote) ==
    [symbol |-> symbol,
     body |-> IF quote = "missing" THEN "Symbol not found"
              ELSE IF quote = "short" THEN "Insufficient data"
              ELSE "price and change"]

\* one rendering of the overview: the text, the list, whether raw_data was
\* empty, the warnings and the cards
Overview(input, major_indices, raw_data_empty, warnings, cards) ==
    [page |-> "overview", input |-> input, major_indices |-> major_indices,
     raw_data_empty |-> raw_data_empty, warnings |-> warnings, cards |-> cards]

\* the home page opened in a new session with some text in the box
Overview_render ==
    /\ run.page = "none"
    /\ \E input \in OverviewInputs, empty \in BOOLEAN :
         LET major_indices == parse_overview(input)
             symbols == {major_indices[i] : i \in 1..Len(major_indices)}
             cut == IF Len(SelectSeq(input, LAMBDA t : strip(t) # <<>>)) > MAX_OVERVIEW
                    THEN <<"Maximum 6 stocks allowed for market overview. Using first 6.">>
                    ELSE <<>>
         IN /\ session' = Store(session, "overview_stocks", input)
            /\ IF empty
               THEN run' = Overview(input, major_indices, TRUE,
                                    Append(cut, "Unable to fetch market data at this time"),
                                    <<>>)
               ELSE \E quotes \in [symbols -> QUOTE_STATES] :
                      run' = Overview(input, major_indices, FALSE, cut,
                                      [i \in 1..Len(major_indices) |->
                                          card(major_indices[i], quotes[major_indices[i]])])
    /\ UNCHANGED <<kind, SMA_S, SMA_L, frame, pc, data2, results, ret, calls, shown>>

NextOverview == Overview_render

SpecOverview == Init /\ [][NextOverview]_vars

\* ---------------------------------------------------------------- claims
\* the signal rule on an aligned row of the constructed tester, by cross
\* multiplication
RulePosition(r) ==
    IF kind = "SW"
    THEN (IF r.Close * r.SMA_30.d > r.SMA_30.n THEN 1 ELSE -1)
    ELSE (IF r.SMA_S.n * r.SMA_L.d > r.SMA_L.n * r.SMA_S.d THEN 1 ELSE -1)

\* C1: every result row is an aligned row other than the first, and its
\* strategy return is its log return times the position of the aligned row
\* just before it; the first aligned row is the only one left out.
C1_LagInvariant ==
    results # None =>
        /\ \A k \in 1..Len(results) :
            \E j \in 2..Len(data2) :
                /\ data2[j] = results[k].row
                /\ results[k].strategy =
                       LogTimes(data2[j].returns, RulePosition(data2[j - 1]))
        /\ Len(results) = Len(data2) - 1

\* a result row whose own position differs from the lagged one, on a day
\* the price moved
C1_Witness ==
    /\ results # None
    /\ \E k \in 1..Len(results) : \E j \in 2..Len(data2) :
           /\ data2[j] = results[k].row
           /\ results[k].position # RulePosition(data2[j - 1])
           /\ results[k].row.returns # LogZero

\* what a tester of the same kind and windows prepares and reports on the
\* price history p
AlignedOf(p) == IF kind = "SW" THEN SW_get_data(p) ELSE SMA_get_data(p, SMA_S, SMA_L)
TableOf(p) == IF kind = "SW" THEN SW_table(AlignedOf(p)) ELSE SMA_table(AlignedOf(p))

\* C2: the aligned rows and the result rows with raw index below n are
\* those of the history cut after its first n prices, for every n, so no
\* price after a row changes it; and the sign a result row applies is the
\* position of the last aligned row of the history cut before that row.
C2_NoLookAhead ==
    pc = "ready" =>
        /\ \A n \in 0..Len(frame.px) :
              LET p == SubSeq(frame.px, 1, n)
              IN /\ AlignedOf(p) = SelectSeq(data2, LAMBDA r : r.idx < n)
                 /\ results # None =>
                       TableOf(p) = SelectSeq(results, LAMBDA r : r.row.idx < n)
        /\ results # None =>
              \A k \in 1..Len(results) :
                 LET before == AlignedOf(SubSeq(frame.px, 1, results[k].row.idx))
                 IN /\ before # <<>>
                    /\ results[k].strategy =
                          LogTimes(results[k].row.returns,
                                   RulePosition(before[Len(before)]))

\* a run whose history goes on after a row that is already in the results
C2_Witness ==
    /\ results # None
    /\ \E n \in 0..(Len(frame.px) - 1) :
          /\ frame.px[n + 1] # NaN
          /\ TableOf(SubSeq(frame.px, 1, n)) # <<>>
          /\ Len(TableOf(SubSeq(frame.px, 1, n))) < Len(results)

\* C3: the position of a result row is +1 exactly when the compared
\* quantity of that row is strictly above the reference average of that
\* row, and -1 otherwise (so a tie gives -1); rows with the same two
\* quantities have the same position.
C3_SignalRule ==
    results # None =>
        /\ \A k \in 1..Len(results) :
              LET r == results[k].row
                  above == IF kind = "SW"
                           THEN r.Close * r.SMA_30.d > r.SMA_30.n
                           ELSE r.SMA_S.n * r.SMA_L.d > r.SMA_L.n * r.SMA_S.d
              IN /\ above => results[k].position = 1
                 /\ ~above => results[k].position = -1
        /\ \A k1, k2 \in 1..Len(results) :
              (kind = "SW" /\ results[k1].row.Close = results[k2].row.Close
                           /\ results[k1].row.SMA_30 = results[k2].row.SMA_30)
              \/ (kind = "SMA" /\ results[k1].row.SMA_S = results[k2].row.SMA_S
                               /\ results[k1].row.SMA_L = results[k2].row.SMA_L)
              => results[k1].position = results[k2].position

\* a Weinstein result row whose Close is exactly its SMA_30, after a long row
C3_Witness ==
    /\ results # None
    /\ kind = "SW"
    /\ \E k \in 2..Len(results) :
          /\ results[k].row.Close * results[k].row.SMA_30.d = results[k].row.SMA_30.n
          /\ results[k].position = -1
          /\ results[k - 1].position = 1

\* C4: every position of a stored result table is +1 or -1.
C4_PositionValues ==
    results # None => \A k \in 1..Len(results) : results[k].position \in {1, -1}

\* a completed run whose table holds a long row, a short row and a tie
C4_Witness ==
    /\ ret.tag = "ok"
    /\ \E k \in 1..Len(results) : results[k].position = 1
    /\ \E k \in 1..Len(results) :
          /\ results[k].position = -1
          /\ kind = "SW"
          /\ results[k].row.Close * results[k].row.SMA_30.d = results[k].row.SMA_30.n

\* C5: a dual-MA tester whose short window is not below its long window
\* never returns a (performance, outperformance) pair and never stores
\* results.
C5_ShortBelowLong ==
    (kind = "SMA" /\ SMA_S >= SMA_L) => (ret.tag # "ok" /\ results = None)

\* C6: a constructor that completes leaves a non-empty aligned frame (an
\* empty or too short history makes get_data fail).
C6_FailFast ==
    pc = "ready" => data2 # <<>>

\* C7: test_results returns a value only when at least 2 result rows remain
\* after the lag-drop.
C7_TooFewRows ==
    ret.tag = "ok" => Len(results) >= 2

\* m millionths is a nearest multiple of 10^-6 to the fraction n/d
NearestMillionth(m, n, d) ==
    LET s == Scaled(Abs(n), d, 6)
    IN /\ (n >= 0 => m >= 0) /\ (n <= 0 => m <= 0)
       /\ \/ Abs(m) = s.q /\ 2 * s.r <= d
          \/ Abs(m) = s.q + 1 /\ 2 * s.r >= d

\* C8: the returned performance is the cumulative strategy value of the
\* last result row to the nearest 10^-6, and the returned outperformance is
\* the exact difference of the last cumulative strategy and buy-and-hold
\* values to the nearest 10^-6.
C8_ReturnedPair ==
    ret.tag = "ok" =>
        LET last == results[Len(results)]
            p == last.returnstrategy
            b == last.returnsBH
        IN /\ NearestMillionth(ret.perf, p.n, p.d)
           /\ NearestMillionth(ret.outperf, p.n * b.d - b.n * p.d, p.d * b.d)

\* a returned pair whose outperformance is not the difference of the two
\* values rounded one by one
C8_Witness ==
    /\ ret.tag = "ok"
    /\ LET b == results[Len(results)].returnsBH
           s == Scaled(b.n, b.d, 6)
           bh6 == IF 2 * s.r >= b.d THEN s.q + 1 ELSE s.q
       IN /\ 2 * s.r # b.d
          /\ ret.outperf # ret.perf - bh6

\* C9: on every result row the cumulative buy-and-hold value is the Close of
\* that row over the Close of the first row of the aligned frame.
C9_BuyHoldRoundTrip ==
    results # None =>
        \A k \in 1..Len(results) :
            results[k].returnsBH.n * data2[1].Close
               = results[k].returnsBH.d * results[k].row.Close

\* the strategy curve at result row k as a product: each result row s <= k
\* gives Close[s] over the price of the day before when the aligned row
\* before it is long, and the inverse when it is short
RECURSIVE StrategyProduct(_)
StrategyProduct(k) ==
    IF k = 0 THEN [n |-> 1, d |-> 1]
    ELSE LET r == results[k].row
             before == frame.px[r.idx]
             rest == StrategyProduct(k - 1)
         IN IF RulePosition(data2[k]) = 1
            THEN Q(rest.n * r.Close, rest.d * before)
            ELSE Q(rest.n * before, rest.d * r.Close)

RECURSIVE StrategySum(_, _)
StrategySum(k, p) == IF k = 0 THEN 0 ELSE StrategySum(k - 1, p) + results[k].strategy.e[p]

\* C10: on every result row the cumulative strategy value is the exponential
\* of the sum of the strategy returns of the result rows up to it, which is
\* the product of the daily price ratios, each raised to the lagged position.
C10_StrategyCompounding ==
    results # None =>
        \A k \in 1..Len(results) :
            LET c == results[k].returnstrategy
                prod == StrategyProduct(k)
            IN /\ c.d > 0
               /\ \A p \in PrimeSet : Val(p, c.n) - Val(p, c.d) = StrategySum(k, p)
               /\ c = prod

\* a table with a long day and a short day on which the price moved
C10_Witness ==
    /\ results # None
    /\ \E k1, k2 \in 1..Len(results) :
          /\ k1 # k2
          /\ results[k1].row.returns # LogZero
          /\ results[k1].strategy = results[k1].row.returns
          /\ results[k2].row.returns # LogZero
          /\ results[k2].strategy # results[k2].row.returns

\* the downloaded history is one price repeated, with no gap
ConstantHistory ==
    /\ frame.px # <<>>
    /\ frame.px[1] # NaN
    /\ \A i \in 1..Len(frame.px) : frame.px[i] = frame.px[1]

One == [n |-> 1, d |-> 1]

\* C11: on a constant price history, with either tester, every log return
\* of the aligned frame and every strategy return is 0, both cumulative
\* curves are 1 on every result row, the returned performance is 1.0 and
\* the returned outperformance is 0.
C11_ConstantPrices ==
    (pc = "ready" /\ ConstantHistory) =>
        /\ \A j \in 1..Len(data2) : data2[j].returns = LogZero
        /\ results # None =>
              \A k \in 1..Len(results) :
                  /\ results[k].strategy = LogZero
                  /\ results[k].returnsBH = One
                  /\ results[k].returnstrategy = One
        /\ ret.tag = "ok" => (ret.perf = 1000000 /\ ret.outperf = 0)

\* a completed Weinstein run on a constant price other than 1
C11_Witness ==
    /\ ConstantHistory
    /\ frame.px[1] > 1
    /\ kind = "SW"
    /\ ret.tag = "ok"
    /\ Len(results) >= 1

\* a Weinstein tester with a window of 3 built on the seven closes
GoldenRun == kind = "SW" /\ SW_WINDOW = 3 /\ frame = GoldenFrame /\ pc = "ready"

\* the fraction x in hundredths, to the nearest
Hundredths(x) ==
    LET s == Scaled(x.n, x.d, 2) IN IF 2 * s.r >= x.d THEN s.q + 1 ELSE s.q

\* C12: on the closes 100, 102, 101, 105, 107, 106, 110 with the threshold
\* rule and a window of 3, the aligned rows are the raw rows 2..6 with
\* averages 101.00, 102.67, 104.33, 106.00, 107.67; the result rows are the
\* raw rows 3..6 with positions +1, +1, -1, +1 (row 5 is a tie, so -1), and
\* their strategy returns are their log returns times -1, +1, +1, -1,
\* that is ln(101/105), ln(107/105), ln(106/107), ln(106/110).
C12_GoldenVector ==
    GoldenRun =>
        /\ [j \in 1..Len(data2) |-> data2[j].idx] = <<2, 3, 4, 5, 6>>
        /\ [j \in 1..Len(data2) |-> Hundredths(data2[j].SMA_30)]
              = <<10100, 10267, 10433, 10600, 10767>>
        /\ results # None =>
              /\ [k \in 1..Len(results) |-> results[k].row.idx] = <<3, 4, 5, 6>>
              /\ [k \in 1..Len(results) |-> results[k].position] = <<1, 1, -1, 1>>
              /\ results[3].row.Close * results[3].row.SMA_30.d
                    = results[3].row.SMA_30.n
              /\ [k \in 1..Len(results) |-> results[k].strategy]
                    = <<np_log_div(101, 105), np_log_div(107, 105),
                        np_log_div(106, 107), np_log_div(106, 110)>>

\* the completed run on the seven closes
C12_Witness ==
    /\ GoldenRun
    /\ ret.tag = "ok"
    /\ Len(results) = 4
    /\ results[4].row.Close = 110

\* the downloaded history has no gap and rises every day
StrictlyIncreasing ==
    /\ \A i \in 1..Len(frame.px) : frame.px[i] # NaN
    /\ \A i \in 2..Len(frame.px) : frame.px[i] > frame.px[i - 1]

\* C13: a dual-MA tester with a short window of 1 and a longer long window
\* (1 and 200 in the source's test case), on a strictly increasing history:
\* the position of every aligned row is +1, and on every result row the
\* strategy return is the log return and the strategy curve is the
\* buy-and-hold curve, so the reported outperformance is 0.
C13_AlwaysLong ==
    (kind = "SMA" /\ SMA_S = 1 /\ SMA_L > 1 /\ pc = "ready" /\ StrictlyIncreasing) =>
        /\ \A j \in 1..Len(data2) :
              data2[j].SMA_S.n * data2[j].SMA_L.d > data2[j].SMA_L.n * data2[j].SMA_S.d
        /\ results # None =>
              \A k \in 1..Len(results) :
                  /\ results[k].position = 1
                  /\ results[k].strategy = results[k].row.returns
                  /\ results[k].returnstrategy = results[k].returnsBH
        /\ ret.tag = "ok" => ret.outperf = 0

\* a completed run of such a tester on a rising history
C13_Witness ==
    /\ kind = "SMA" /\ SMA_S = 1 /\ SMA_L > 1
    /\ StrictlyIncreasing
    /\ ret.tag = "ok"
    /\ Len(results) >= 1
    /\ results[Len(results)].returnsBH # One

\* the average avg stored on the aligned row r is the mean of exactly the W
\* consecutive downloaded prices that end at that row
FullWindow(r, avg, W) ==
    /\ r.idx >= W - 1
    /\ \A i \in (r.idx - W + 2)..(r.idx + 1) : frame.px[i] # NaN
    /\ avg # QNaN
    /\ avg.n > 0
    /\ avg.n * W = avg.d * SumRange(frame.px, r.idx - W + 2, r.idx + 1)

\* C14: every aligned row, and so every result row, has a raw index of at
\* least W - 1 for each window W of the tester, and each of its averages is
\* the mean of exactly the W consecutive prices ending at it; a row whose
\* window is incomplete is not in the frame, with average 0 or otherwise.
C14_WindowAlignment ==
    pc = "ready" =>
        /\ \A j \in 1..Len(data2) :
              IF kind = "SW"
              THEN FullWindow(data2[j], data2[j].SMA_30, SW_WINDOW)
              ELSE /\ FullWindow(data2[j], data2[j].SMA_S, SMA_S)
                   /\ FullWindow(data2[j], data2[j].SMA_L, SMA_L)
        /\ results # None =>
              \A k \in 1..Len(results) : \E j \in 1..Len(data2) : results[k].row = data2[j]

\* a completed dual-MA run whose history has a row with a close and a
\* return but fewer prices behind it than the long window
C14_Witness ==
    /\ kind = "SMA"
    /\ SMA_L > 2
    /\ ret.tag = "ok"
    /\ Len(frame.px) > 2
    /\ frame.px[1] # NaN /\ frame.px[2] # NaN
    /\ \A j \in 1..Len(data2) : data2[j].idx # 1

\* the raw rows (0-based) that have a close, a close the day before, and W
\* prices without a gap ending at them
CompleteRows(W) ==
    {i - 1 : i \in {h \in 2..Len(frame.px) :
                      /\ h >= W
                      /\ frame.px[h - 1] # NaN
                      /\ \A g \in (h - W + 1)..h : frame.px[g] # NaN}}

\* C15: with a short window of 1 the short average of every aligned row is
\* its close, the position of a result row is +1 exactly when its close is
\* strictly above its long average, and the aligned rows are the rows the
\* general rule keeps: those with a return and a complete long window.
C15_WindowOne ==
    (kind = "SMA" /\ SMA_S = 1 /\ pc = "ready") =>
        /\ \A j \in 1..Len(data2) : data2[j].SMA_S = [n |-> data2[j].Close, d |-> 1]
        /\ {data2[j].idx : j \in 1..Len(data2)} = CompleteRows(SMA_L)
        /\ \A j \in 2..Len(data2) : data2[j - 1].idx < data2[j].idx
        /\ results # None =>
              \A k \in 1..Len(results) :
                  LET r == results[k].row
                  IN results[k].position
                        = IF r.Close * r.SMA_L.d > r.SMA_L.n THEN 1 ELSE -1

\* a completed run with a short window of 1 that holds a long row, a short
\* row and a row whose close equals its long average
C15_Witness ==
    /\ kind = "SMA" /\ SMA_S = 1 /\ SMA_L > 1
    /\ ret.tag = "ok"
    /\ \E k \in 1..Len(results) : results[k].position = 1
    /\ \E k \in 1..Len(results) :
          /\ results[k].position = -1
          /\ results[k].row.Close * results[k].row.SMA_L.d < results[k].row.SMA_L.n
    /\ \E k \in 1..Len(results) :
          results[k].row.Close * results[k].row.SMA_L.d = results[k].row.SMA_L.n

\* a correlation analysis is stored in the session
CorrStored == "corr_matrix" \in DOMAIN session

\* C16: the stored low-correlation count of every asset is the number of
\* other assets whose correlation with it is, in absolute value, strictly
\* below the threshold, and it lies between 0 and N - 1.
C16_LowCorrCount ==
    CorrStored =>
        LET M == session["corr_matrix"]
            N == Len(M)
        IN \A i \in 1..N :
              /\ session["low_corr_counts"][i]
                    = Cardinality({j \in (1..N) \ {i} :
                                     below(M[i][j], session["low_corr_threshold"])})
              /\ session["low_corr_counts"][i] \in 0..(N - 1)

One2 == [nan |-> FALSE, sgn |-> 1, sq |-> One]

\* C17: the stored correlation matrix is symmetric, every diagonal entry is
\* 1.0, and every entry is a number between -1 and 1.
C17_CorrMatrixShape ==
    CorrStored =>
        LET M == session["corr_matrix"]
        IN \A i, j \in 1..Len(M) :
              /\ M[i][j] = M[j][i]
              /\ M[i][i] = One2
              /\ ~M[i][j].nan
              /\ M[i][j].sq.n <= M[i][j].sq.d

\* a number every price divides
RECURSIVE QuoteProduct(_)
QuoteProduct(k) == IF k = 0 THEN 1 ELSE k * QuoteProduct(k - 1)

\* the period-to-period returns of a price column, all times the same
\* positive number so that they are integers (a correlation is unchanged)
ScaledReturns(px) ==
    [t \in 1..(Len(px) - 1) |->
        IF px[t] = NaN \/ px[t + 1] = NaN THEN NaN
        ELSE (px[t + 1] - px[t]) * (QuoteProduct(MaxQuote) \div px[t])]

\* C18: every entry of the stored correlation matrix is the correlation of
\* the return series of the two assets.
C18_CorrOfReturns ==
    CorrStored =>
        LET M == session["corr_matrix"]
            stocks == session["corr_stocks"]
        IN \A i, j \in 1..Len(M) :
              M[i][j] = pearson(ScaledReturns(stocks[i].px), ScaledReturns(stocks[j].px))

\* the entered symbols that have at least one price in the download
WithData(stocks) ==
    SelectSeq(stocks, LAMBDA col : \E t \in 1..Len(col.px) : col.px[t] \in 1..MaxQuote)

\* C19: a correlation run stores the price columns that have at least one
\* price, unchanged, and a matrix and counts for exactly those assets; when
\* fewer than 2 assets have data the page shows an error and stores no
\* matrix, no counts and nothing else.
C19_DropEmptyAssets ==
    run.page = "corr" =>
        /\ Len(WithData(run.stocks)) < 2 =>
              /\ session = NoSession
              /\ run.msg # "Correlation analysis complete"
        /\ CorrStored =>
              /\ session["corr_stocks"] = WithData(run.stocks)
              /\ Len(session["corr_matrix"]) = Len(WithData(run.stocks))
              /\ Len(session["low_corr_counts"]) = Len(WithData(run.stocks))
              /\ DOMAIN session = {"corr_matrix", "corr_stocks", "low_corr_counts",
                                    "low_corr_threshold"}

\* a run on three symbols of which two have no price at all
C19_Witness ==
    /\ run.page = "corr"
    /\ Len(run.stocks) = 3
    /\ Len(WithData(run.stocks)) = 1
    /\ run.msg = "Not enough valid data found"
    /\ session = NoSession

\* the returns of a stored column, all times QuoteProduct(MaxQuote)
ScaledStored(r) == [k \in 1..Len(r) |-> r[k].n * (QuoteProduct(MaxQuote) \div r[k].d)]

\* C20: for every asset of a stored risk summary, the mean is 252 times the
\* mean of its daily returns, the std is the square root of 252 times their
\* standard deviation (n - 1 in the divisor), and the Sharpe ratio, when
\* the std is a number other than 0, is that mean over that std.
C20_RiskRewardSummary ==
    "risk_summary" \in DOMAIN session =>
        LET summary == session["risk_summary"]
            returns == session["risk_returns"]
            K == QuoteProduct(MaxQuote)
        IN /\ Len(summary) = Len(returns)
           /\ \A i \in 1..Len(summary) :
                LET R == ScaledStored(returns[i].r)
                    n == Len(R)
                    S1 == Sum(R)
                    S2 == Sum([k \in 1..n |-> R[k] * R[k]])
                    row == summary[i]
                IN /\ row.ticker = returns[i].ticker
                   /\ n >= 1 =>
                         /\ row.mean # QNaN
                         /\ row.mean.n * n * K = row.mean.d * 252 * S1
                   /\ n >= 2 =>
                         /\ ~row.std.nan
                         /\ row.std.sq.n * n * (n - 1) * K * K
                               = row.std.sq.d * 252 * (n * S2 - S1 * S1)
                   /\ (n >= 2 /\ row.std.sq.n > 0) =>
                         /\ row.sharpe.tag = "num"
                         /\ row.sharpe.sgn = Sign(S1)
                         /\ row.sharpe.sq.n * row.std.sq.n * row.mean.d * row.mean.d
                               = row.sharpe.sq.d * row.std.sq.d * row.mean.n * row.mean.n

\* a stored summary with an asset whose returns vary and whose mean return
\* is negative
C20_Witness ==
    /\ "risk_summary" \in DOMAIN session
    /\ \E i \in 1..Len(session["risk_summary"]) :
          /\ session["risk_summary"][i].sharpe.tag = "num"
          /\ session["risk_summary"][i].sharpe.sgn = -1
          /\ Len(session["risk_returns"][i].r) >= 2

\* C21: in a stored risk summary an asset whose std is exactly 0 has its
\* Sharpe ratio reported with the marker 'undefined', not as NaN, an
\* infinity or a number.
C21_SharpeUndefinedMarker ==
    "risk_summary" \in DOMAIN session =>
        \A i \in 1..Len(session["risk_summary"]) :
            LET row == session["risk_summary"][i]
            IN (~row.std.nan /\ row.std.sq.n = 0) => row.sharpe.tag = "undefined"

\* C22: the summary row stored for an asset is the row the page computes
\* from that asset's price column alone, whatever the other columns hold.
C22_PerAssetIndependence ==
    "risk_summary" \in DOMAIN session =>
        \A i \in 1..Len(session["risk_summary"]) :
            session["risk_summary"][i]
                = risk_summary(daily_returns(<<session["risk_stocks"][i]>>))[1]

\* C24: for every asset of a stored correlation analysis the stored
\* low-correlation count is the 'Low Correlations Count' of the detailed
\* table, and it is not negative.
C24_LowCorrAgreement ==
    CorrStored =>
        \A i \in 1..Len(session["corr_matrix"]) :
            /\ session["low_corr_counts"][i]
                  = detailed_count(session["corr_matrix"], i, session["low_corr_threshold"])
            /\ session["low_corr_counts"][i] >= 0

\* C23: a call of test_results never changes data2, and every call after
\* the first leaves the returned pair (or the error) and the results table
\* exactly as the call before left them.
C23_Determinism ==
    [][(calls' = calls + 1) =>
          /\ data2' = data2
          /\ calls >= 1 => (ret' = ret /\ results' = results)]_vars

\* a second call that returned a pair
C23_Witness ==
    /\ calls = 2
    /\ ret.tag = "ok"
    /\ Len(results) >= 2
    /\ ret.outperf # 0

\* the downloaded history has no missing price
GapFree == \A i \in 1..Len(frame.px) : frame.px[i] # NaN

Max(a, b) == IF a >= b THEN a ELSE b

\* the largest rolling window of the constructed tester
LargestWindow == IF kind = "SW" THEN SW_WINDOW ELSE Max(SMA_S, SMA_L)

\* C25: on a gap-free history of n prices with largest window W the aligned
\* frame holds the raw rows max(W-1, 1)..n-1, and a call of test_results
\* returns a pair exactly when n > max(W, 2), with n - max(W, 2) result rows
\* the first of which is the raw row max(W, 2); otherwise it raises.
C25_ResultRowCount ==
    (pc = "ready" /\ GapFree) =>
        LET n == Len(frame.px)
            first == Max(LargestWindow - 1, 1)
            m == Max(LargestWindow, 2)
        IN /\ Len(data2) = Max(n - first, 0)
           /\ data2 # <<>> => data2[1].idx = first
           /\ calls >= 1 =>
                 /\ ret.tag = "ok" <=> n > m
                 /\ ret.tag = "raise" <=> n <= m
                 /\ ret.tag = "ok" =>
                       /\ Len(results) = n - m
                       /\ results[1].row.idx = m
                 /\ ret.tag = "raise" => (ret.exc = "IndexError" /\ results = None)

\* a gap-free run with a window of 1 and one with exactly one result row
C25_Witness ==
    /\ GapFree
    /\ ret.tag = "ok"
    /\ Len(frame.px) = LargestWindow + 1
    /\ LargestWindow >= 2
    /\ Len(results) = 1

\* a plot_results step while results is None, and a test_results step that
\* raises
PlotWhileNone ==
    (shown' # shown /\ results = None) =>
        /\ shown'.kind = "print"
        /\ shown'.curves = <<>>
        /\ UNCHANGED <<results, ret, data2, calls>>
RaisingCall == (calls' = calls + 1 /\ ret'.tag = "raise") => results' = results

\* C26: results is None exactly until a call of test_results completes and
\* is then the complete table of that call; a plot_results call while
\* results is None prints a line, plots nothing and changes nothing else;
\* a call of test_results that raises leaves results as it was.
C26_ResultLifecycle ==
    /\ [](pc = "ready" =>
            /\ (results = None) <=> (calls = 0 \/ ret.tag = "raise")
            /\ (results # None) => (results = TableOf(frame.px)))
    /\ [][PlotWhileNone /\ RaisingCall]_vars

\* a tester whose test_results raised and whose plot_results printed
C26_Witness ==
    /\ calls >= 1
    /\ ret.tag = "raise"
    /\ results = None
    /\ shown.kind = "print"

\* C29: when every aligned row is long the strategy curve is the
\* buy-and-hold curve on every result row and the outperformance is 0; when
\* every aligned row is short the product of the two curves is 1 on every
\* result row; both curves are strictly positive on every result row.
C29_AllLongAllShort ==
    results # None =>
        /\ (\A j \in 1..Len(data2) : RulePosition(data2[j]) = 1) =>
              /\ \A k \in 1..Len(results) :
                    results[k].returnstrategy = results[k].returnsBH
              /\ ret.tag = "ok" => ret.outperf = 0
        /\ (\A j \in 1..Len(data2) : RulePosition(data2[j]) = -1) =>
              \A k \in 1..Len(results) :
                  results[k].returnstrategy.n * results[k].returnsBH.n
                     = results[k].returnstrategy.d * results[k].returnsBH.d
        /\ \A k \in 1..Len(results) :
              /\ results[k].returnstrategy.n > 0 /\ results[k].returnstrategy.d > 0
              /\ results[k].returnsBH.n > 0 /\ results[k].returnsBH.d > 0

\* an all-short run on which the price moved
C29_Witness ==
    /\ ret.tag = "ok"
    /\ Len(results) >= 2
    /\ \A j \in 1..Len(data2) : RulePosition(data2[j]) = -1
    /\ results[Len(results)].returnsBH.n > results[Len(results)].returnsBH.d

\* the two curves a chart of the stored table draws
CurvesOf(table) ==
    [k \in 1..Len(table) |-> <<table[k].returnsBH, table[k].returnstrategy>>]

SMA_KEYS == {"sma_results", "sma_symbol", "sma_short", "sma_long"}
SW_KEYS == {"weinstein_results", "weinstein_symbol"}

\* some key of the set is written by the step
Written(keys) ==
    \E k \in keys :
        \/ (k \in DOMAIN session') # (k \in DOMAIN session)
        \/ k \in DOMAIN session /\ k \in DOMAIN session' /\ session'[k] # session[k]

\* the stored keys are present together and belong to one backtest, and the
\* chart of the page is labelled with the stored values
StoredTogether ==
    /\ "sma_results" \in DOMAIN session =>
         /\ SMA_KEYS \subseteq DOMAIN session
         /\ session["sma_short"] < session["sma_long"]
         /\ \E f \in PageFrames(session["sma_symbol"]) :
              session["sma_results"] =
                  SMA_table(SMA_get_data(f.px, session["sma_short"], session["sma_long"]))
    /\ "weinstein_results" \in DOMAIN session =>
         /\ SW_KEYS \subseteq DOMAIN session
         /\ \E f \in PageFrames(session["weinstein_symbol"]) :
              session["weinstein_results"] = SW_table(SW_get_data(f.px))
    /\ (run.page = "sma" /\ "sma_results" \in DOMAIN session) =>
         /\ shown.kind = "plot"
         /\ shown.text = <<session["sma_symbol"], "SMA Strategy",
                           session["sma_short"], session["sma_long"]>>
         /\ shown.curves = CurvesOf(session["sma_results"])
    /\ (run.page = "sw" /\ "weinstein_results" \in DOMAIN session) =>
         /\ shown.kind = "plot"
         /\ shown.text[1] = session["weinstein_symbol"]
         /\ shown.curves = CurvesOf(session["weinstein_results"])

\* a step that writes one of the keys is a successful run of that page and
\* writes all of them from that run's inputs
StoredByOneRun ==
    /\ Written(SMA_KEYS) =>
         /\ run'.page = "sma" /\ run'.invoked /\ run'.msg = "Strategy Performance"
         /\ SMA_KEYS \subseteq DOMAIN session'
         /\ session'["sma_symbol"] = run'.symbol
         /\ session'["sma_short"] = run'.sma_short
         /\ session'["sma_long"] = run'.sma_long
         /\ \E f \in PageFrames(run'.symbol) :
              session'["sma_results"] =
                  SMA_table(SMA_get_data(f.px, run'.sma_short, run'.sma_long))
    /\ Written(SW_KEYS) =>
         /\ run'.page = "sw" /\ run'.invoked /\ run'.msg = "Strategy Performance"
         /\ SW_KEYS \subseteq DOMAIN session'
         /\ session'["weinstein_symbol"] = run'.symbol
         /\ \E f \in PageFrames(run'.symbol) :
              session'["weinstein_results"] = SW_table(SW_get_data(f.px))

\* C27: after any sequence of reruns of the two backtest pages,
\* 'sma_results' is in the session state only together with 'sma_symbol',
\* 'sma_short' and 'sma_long' ('weinstein_results' only with
\* 'weinstein_symbol'), the keys are written only by a successful run and
\* all from that run's inputs, and the chart shows the stored symbol,
\* periods and results, whatever the widgets hold at the moment.
C27_SessionConsistency == [](StoredTogether) /\ [][StoredByOneRun]_vars

\* a rerun of the SMA page without a run, the widgets holding another
\* symbol and other periods than the stored results were made with
C27_Witness ==
    /\ run.page = "sma"
    /\ ~run.invoked
    /\ "sma_results" \in DOMAIN session
    /\ "weinstein_results" \in DOMAIN session
    /\ run.symbol # session["sma_symbol"]
    /\ run.sma_short # session["sma_short"]
    /\ run.sma_long # session["sma_long"]
    /\ session["weinstein_symbol"] # session["sma_symbol"]
    /\ shown.kind = "plot"

\* the inputs of the rerun do not pass the checks of its page
RejectedInputs(r) ==
    \/ r.symbol = ""
    \/ ~r.dates_ok
    \/ r.page = "sma" /\ r.sma_short >= r.sma_long

\* the chart of the page drawn from the session state as it was before
ChartOfPrevious ==
    /\ (run'.page = "sma" /\ "sma_results" \in DOMAIN session) =>
         /\ shown'.kind = "plot"
         /\ shown'.text[1] = session["sma_symbol"]
         /\ shown'.curves = CurvesOf(session["sma_results"])
    /\ (run'.page = "sma" /\ "sma_results" \notin DOMAIN session) => shown'.kind = "print"
    /\ (run'.page = "sw" /\ "weinstein_results" \in DOMAIN session) =>
         /\ shown'.kind = "plot"
         /\ shown'.text[1] = session["weinstein_symbol"]
         /\ shown'.curves = CurvesOf(session["weinstein_results"])
    /\ (run'.page = "sw" /\ "weinstein_results" \notin DOMAIN session) => shown'.kind = "print"

RejectedOrFailed ==
    /\ (run'.pressed /\ RejectedInputs(run')) =>
         /\ ~run'.invoked
         /\ session' = session
         /\ ChartOfPrevious
    /\ (run'.pressed /\ run'.msg # "Strategy Performance") =>
         /\ session' = session
         /\ ChartOfPrevious
    /\ run'.invoked => (run'.pressed /\ ~RejectedInputs(run'))

\* C28: a run rejected by the input checks (empty symbol, start date not
\* before end date, short >= long) or failing in download or computation
\* writes no session-state key, so the chart still shows the results stored
\* before (or the hint when there are none); the tester is constructed
\* only when all checks pass.
C28_RejectedRunKeepsResults == [][RejectedOrFailed]_vars

\* a run that raised while earlier results are on display
C28_Witness ==
    /\ run.page = "sma"
    /\ run.invoked
    /\ run.msg = "Error running analysis"
    /\ "sma_results" \in DOMAIN session
    /\ shown.kind = "plot"
    /\ shown.curves = CurvesOf(session["sma_results"])

\* the pieces of the text that are not blank, in input order
Entered(input) ==
    SelectSeq(input, LAMBDA t : \E i \in 1..Len(t) : t[i] # " ")

\* symbol is the piece t without the blanks around it, in capitals
TrimmedUpper(symbol, t) ==
    \E lead \in 0..Len(t) :
        /\ Len(symbol) >= 1
        /\ lead + Len(symbol) <= Len(t)
        /\ \A i \in 1..Len(t) : (i <= lead \/ i > lead + Len(symbol)) => t[i] = " "
        /\ symbol[1] # " " /\ symbol[Len(symbol)] # " "
        /\ \A i \in 1..Len(symbol) :
              /\ symbol[i] \notin {"s", "q"}
              /\ \/ symbol[i] = t[lead + i]
                 \/ t[lead + i] = "s" /\ symbol[i] = "S"
                 \/ t[lead + i] = "q" /\ symbol[i] = "Q"

\* the list has 1 to 6 entries: the first 6 entered pieces, trimmed and in
\* capitals, or the default list when nothing was entered
SymbolListRule ==
    run.page = "overview" =>
        LET entered == Entered(run.input)
            major_indices == run.major_indices
        IN /\ Len(major_indices) >= 1
           /\ Len(major_indices) <= 6
           /\ IF Len(entered) = 0
              THEN major_indices = << <<"S", "P", "Y">>, <<"Q", "Q", "Q">>,
                                      <<"D", "I", "A">>, <<"I", "W", "M">> >>
              ELSE /\ Len(major_indices) = (IF Len(entered) > 6 THEN 6 ELSE Len(entered))
                   /\ \A i \in 1..Len(major_indices) :
                         TrimmedUpper(major_indices[i], entered[i])

\* one card per entry of the list, in the order of the list
OneCardPerSymbol ==
    /\ Len(run.cards) = Len(run.major_indices)
    /\ \A i \in 1..Len(run.cards) : run.cards[i].symbol = run.major_indices[i]

\* C30 as stated: for every text, the list rule holds and exactly one card
\* is rendered per listed symbol.
C30_AlwaysOneCardPerSymbol ==
    /\ SymbolListRule
    /\ run.page = "overview" => OneCardPerSymbol

\* C30: for every text, the list has 1 to 6 entries, each a non-empty,
\* trimmed, upper-cased piece, the first 6 in input order or the default
\* list when none is entered; when the download is not empty exactly one
\* card is rendered per listed symbol, and when it is empty the warning is
\* shown and no card.
C30_OverviewSymbolList ==
    /\ SymbolListRule
    /\ (run.page = "overview" /\ ~run.raw_data_empty) => OneCardPerSymbol
    /\ (run.page = "overview" /\ run.raw_data_empty) =>
          /\ run.cards = <<>>
          /\ run.warnings[Len(run.warnings)] = "Unable to fetch market data at this time"

\* seven pieces entered with blanks and small letters, six kept, six cards
C30_Witness ==
    /\ run.page = "overview"
    /\ Len(Entered(run.input)) = 7
    /\ \E i \in 1..7 : run.input[i] = <<" ", "s">>
    /\ \E i \in 1..7 : run.input[i] = <<"Q", " ">>
    /\ Len(run.major_indices) = 6
    /\ ~run.raw_data_empty
    /\ Len(run.cards) = 6
    /\ \E i \in 1..6 : run.cards[i].body = "Symbol not found"
    /\ \E i \in 1..6 : run.cards[i].body = "price and change"
====
